---- MODULE Spec2Model ----
(***************************************************************************)
(* A model of the wiki server of snjay/golang-web-app.                     *)
(*                                                                         *)
(* Three programs live in the repository:                                  *)
(*   - the store demo (save a page, load it back),                         *)
(*   - wiki.go: the server whose handlers cut the title out of the path,   *)
(*   - the final server: the handlers wrapped by makeHandler, which        *)
(*     validates the path against validPath first.                         *)
(* Strings are sequences of one-character strings, so that concatenation,  *)
(* slicing and the regular expression are computed and not assumed.        *)
(***************************************************************************)
EXTENDS Naturals, Sequences, FiniteSets, TLC

VARIABLES
    files,      \* the working directory: file name -> content
    resp,       \* the request served last: request, response, what it called
    lastSaved,  \* history: title -> body of its last save, when that succeeded
    conns       \* the requests in flight, when requests are served concurrently

vars == <<files, resp, lastSaved, conns>>

----------------------------------------------------------------------------
(* Bounds of the model                                                     *)

\* longest run of identifier characters in a request path
MaxId == 2
\* longest body submitted to a server that serves one request at a time
MaxBody == 1
\* longest body submitted to the concurrent server
MaxBodyConc == 2

SeqsUpTo(S, n) == UNION {[1..k -> S] : k \in 0..n}

\* What follows the action in a request path: a run of identifier
\* characters (maybe empty), then nothing, a dot, a slash, a further
\* segment or a step up the directory tree.
Ids == SeqsUpTo({"a"}, MaxId)
Junk == {<<>>, <<".">>, <<"/">>, <<"/", "a">>, <<"/", ".", ".">>}
Tails == {id \o j : id \in Ids, j \in Junk}
Bodies == SeqsUpTo({"x"}, MaxBody)
ConcBodies == SeqsUpTo({"x", "y"}, MaxBodyConc)

----------------------------------------------------------------------------
(* Strings                                                                 *)

Lower == {"a","b","c","d","e","f","g","h","i","j","k","l","m",
          "n","o","p","q","r","s","t","u","v","w","x","y","z"}
Upper == {"A","B","C","D","E","F","G","H","I","J","K","L","M",
          "N","O","P","Q","R","S","T","U","V","W","X","Y","Z"}
Digit == {"0","1","2","3","4","5","6","7","8","9"}

HasPrefix(s, p) == Len(s) >= Len(p) /\ SubSeq(s, 1, Len(p)) = p
\* s[n:] of Go, n counted from 0
From(s, n) == SubSeq(s, n + 1, Len(s))

ViewPrefix == <<"/", "v", "i", "e", "w", "/">>
EditPrefix == <<"/", "e", "d", "i", "t", "/">>
SavePrefix == <<"/", "s", "a", "v", "e", "/">>
\* a path no pattern of the server is registered for
OtherPrefix == <<"/", "l", "o", "a", "d", "/">>
TxtExt == <<".", "t", "x", "t">>

NoErr == "ok"

\* path.Clean of a rooted path, which http.Redirect applies to its target
RECURSIVE SplitFrom(_, _, _)
SplitFrom(s, i, cur) ==
    IF i > Len(s) THEN <<cur>>
    ELSE IF s[i] = "/" THEN <<cur>> \o SplitFrom(s, i + 1, <<>>)
    ELSE SplitFrom(s, i + 1, Append(cur, s[i]))

RECURSIVE Resolve(_, _, _)
Resolve(segs, i, stack) ==
    IF i > Len(segs) THEN stack
    ELSE IF segs[i] = <<>> \/ segs[i] = <<".">> THEN Resolve(segs, i + 1, stack)
    ELSE IF segs[i] = <<".", ".">>
         THEN Resolve(segs, i + 1,
                      IF stack = <<>> THEN stack ELSE SubSeq(stack, 1, Len(stack) - 1))
    ELSE Resolve(segs, i + 1, Append(stack, segs[i]))

RECURSIVE JoinSegs(_, _)
JoinSegs(stack, i) ==
    IF i > Len(stack) THEN <<>> ELSE <<"/">> \o stack[i] \o JoinSegs(stack, i + 1)

pathClean(p) ==
    LET stack == Resolve(SplitFrom(p, 1, <<>>), 1, <<>>)
    IN  IF stack = <<>> THEN <<"/">> ELSE JoinSegs(stack, 1)

----------------------------------------------------------------------------
(* type Page struct { Title string; Body []byte }                          *)

\* a *Page: nil, or a pointer to a Page
Page(title, body) == [nil |-> FALSE, Title |-> title, Body |-> body]
NilPage == [nil |-> TRUE, Title |-> <<>>, Body |-> <<>>]

(* var validPath = regexp.MustCompile("^/(edit|save|view)/([a-zA-Z0-9]+)$") *)
(* validPath(path) is FindStringSubmatch: <<>> for nil, or <<match, action, id>> *)
\* the pattern with (.+) for the identifier
validPathAnyId(path) ==
    LET ps == {p \in {EditPrefix, SavePrefix, ViewPrefix} : HasPrefix(path, p)}
    IN  IF ps = {} THEN <<>>
        ELSE LET p == CHOOSE q \in ps : TRUE
                 id == From(path, Len(p))
             IN  IF Len(id) >= 1 THEN <<path, SubSeq(p, 2, Len(p) - 1), id>> ELSE <<>>

validPath(path) ==
    LET ps == {p \in {EditPrefix, SavePrefix, ViewPrefix} : HasPrefix(path, p)}
    IN  IF ps = {} THEN <<>>
        ELSE LET p == CHOOSE q \in ps : TRUE
                 id == From(path, Len(p))
             IN  IF /\ Len(id) >= 1
                    /\ \A i \in 1..Len(id) : id[i] \in Lower \cup Upper \cup Digit
                 THEN <<path, SubSeq(p, 2, Len(p) - 1), id>>
                 ELSE <<>>

----------------------------------------------------------------------------
(* The file system calls of ioutil.WriteFile and ioutil.ReadFile           *)

\* open(name, O_WRONLY|O_CREATE|O_TRUNC, perm): the file exists and is empty
OpenTrunc(fs, name) ==
    [n \in DOMAIN fs \cup {name} |-> IF n = name THEN <<>> ELSE fs[n]]

\* one write(fd, data) at offset off: the bytes land over what is there
Overlay(old, off, data) ==
    [i \in 1..(IF Len(old) > off + Len(data) THEN Len(old) ELSE off + Len(data)) |->
        IF i > off /\ i <= off + Len(data) THEN data[i - off] ELSE old[i]]

WriteAt(fs, name, off, data) ==
    [fs EXCEPT ![name] = Overlay(fs[name], off, data)]

\* WriteFile whose open lacks O_TRUNC
WriteFileNoTrunc(fs, name, data) ==
    LET f0 == IF name \in DOMAIN fs THEN fs ELSE OpenTrunc(fs, name)
    IN  {[files |-> fs, err |-> "open"],
         [files |-> WriteAt(f0, name, 0, data), err |-> "close"],
         [files |-> WriteAt(f0, name, 0, data), err |-> NoErr]}
        \cup {[files |-> WriteAt(f0, name, 0, SubSeq(data, 1, n)), err |-> "write"] :
                 n \in {k \in 0..Len(data) : k < Len(data)}}

\* ioutil.WriteFile(filename, data, 0600): open, write, close; the first
\* error is returned.  The operating system decides what fails: nothing, the
\* open, the write after n < len(data) bytes, or the close.  The value is
\* the set of the outcomes: the store left behind and the error returned.
WriteFile(fs, name, data) ==
    LET f0 == OpenTrunc(fs, name)
    IN  {[files |-> fs, err |-> "open"],
         [files |-> WriteAt(f0, name, 0, data), err |-> "close"],
         [files |-> WriteAt(f0, name, 0, data), err |-> NoErr]}
        \cup {[files |-> WriteAt(f0, name, 0, SubSeq(data, 1, n)), err |-> "write"] :
                 n \in {k \in 0..Len(data) : k < Len(data)}}

\* ioutil.ReadFile(filename): the content, or an error when there is no file
ReadFile(fs, name) ==
    IF name \in DOMAIN fs THEN [body |-> fs[name], err |-> NoErr]
    ELSE [body |-> <<>>, err |-> "notexist"]

----------------------------------------------------------------------------
\* Page.save and loadPage

Saving == <<"s", "a", "v", "i", "n", "g">>

\* save: the outcomes of WriteFile, each with the line printed before it
save(fs, p) ==
    LET filename == p.Title \o TxtExt
    IN  {[files |-> r.files, err |-> r.err, out |-> <<Saving \o filename>>] :
            r \in WriteFile(fs, filename, p.Body)}

\* loadPage that names the page after its file
loadPageFileTitle(fs, title) ==
    LET filename == title \o TxtExt
        r == ReadFile(fs, filename)
    IN  IF r.err # NoErr THEN [p |-> NilPage, err |-> r.err]
        ELSE [p |-> Page(filename, r.body), err |-> NoErr]

loadPage(fs, title) ==
    LET filename == title \o TxtExt
        r == ReadFile(fs, filename)
    IN  IF r.err # NoErr THEN [p |-> NilPage, err |-> r.err]
        ELSE [p |-> Page(title, r.body), err |-> NoErr]

----------------------------------------------------------------------------
(* net/http: the ResponseWriter and the helpers the handlers call          *)

\* status 0: the header is not written yet.  header is the Location entry of
\* the header map, location the one that was sent with the status line.
NewResponse == [status |-> 0, header |-> <<>>, location |-> <<>>, body |-> <<>>]

\* the first WriteHeader sends the status and the headers; later ones are
\* ignored ("superfluous response.WriteHeader call")
WriteHeader(w, code) ==
    IF w.status # 0 THEN w ELSE [w EXCEPT !.status = code, !.location = w.header]

\* Write sends the header with 200 when nothing was sent before
Write(w, chunk) ==
    LET w1 == WriteHeader(w, 200) IN [w1 EXCEPT !.body = Append(@, chunk)]

\* a piece of response body: an error message, the link of a redirect, or
\* the output (whole or cut short) of template tmpl executed on page p
Chunk(kind, msg, url, tmpl, p) ==
    [kind |-> kind, msg |-> msg, url |-> url, tmpl |-> tmpl, p |-> p]

\* http.Error(w, msg, code)
Error(w, msg, code) == Write(WriteHeader(w, code), Chunk("error", msg, <<>>, "", NilPage))

\* http.NotFound(w, r)
NotFound(w) == Error(w, "404 page not found", 404)

\* http.Redirect(w, r, url, code): Location is the target, cleaned with its
\* trailing slash kept; then the status, and for a GET a short body with the
\* link
Redirect(w, r, url, code) ==
    LET cleaned == pathClean(url)
        target == IF url[Len(url)] = "/" /\ cleaned[Len(cleaned)] # "/"
                  THEN cleaned \o <<"/">> ELSE cleaned
        w1 == WriteHeader([w EXCEPT !.header = target], code)
    IN  IF r.method = "GET" THEN Write(w1, Chunk("link", "", target, "", NilPage)) ELSE w1

StatusFound == 302
StatusInternalServerError == 500

----------------------------------------------------------------------------
(* The final server: templates cached, handlers wrapped by makeHandler     *)

\* What a handler works on: the store, the response, the calls it made so
\* far and the lines it printed.  A handler's value is the set of the
\* contexts it can end in, one for each way the file system and the
\* templates can behave.
Call(fn, title, p, tmpl, err) ==
    [fn |-> fn, title |-> title, p |-> p, tmpl |-> tmpl, err |-> err]

NewContext(fs) == [files |-> fs, w |-> NewResponse, calls |-> <<>>, out |-> <<>>]

\* renderTemplate: templates.ExecuteTemplate(w, tmpl+".html", p), and
\* http.Error when it fails.  The template writes the whole page; or fails
\* before any output; or fails after part of the page went out.
renderTemplate(w, tmpl, p) ==
    {Write(w, Chunk("html", "", <<>>, tmpl, p)),
     Error(w, "execute", StatusInternalServerError),
     Error(Write(w, Chunk("partial", "", <<>>, tmpl, p)), "execute",
           StatusInternalServerError)}

ViewColon == <<"v", "i", "e", "w", ":", " ">>
SaveColon == <<"s", "a", "v", "e", ":", " ">>
EditColon == <<"e", "d", "i", "t", ":", " ">>

\* viewHandler that sends a missing page back to /view/
viewHandlerToView(c, r, title) ==
    LET l == loadPage(c.files, title)
        w1 == IF l.err # NoErr
              THEN Redirect(c.w, r, ViewPrefix \o title, StatusFound)
              ELSE c.w
    IN  {[files |-> c.files,
          w     |-> w2,
          calls |-> c.calls \o <<Call("viewHandler", title, NilPage, "", NoErr),
                                  Call("loadPage", title, l.p, "", l.err),
                                  Call("renderTemplate", <<>>, l.p, "view", NoErr)>>,
          out   |-> Append(c.out, ViewColon \o r.path)] :
            w2 \in renderTemplate(w1, "view", l.p)}

viewHandler(c, r, title) ==
    LET l == loadPage(c.files, title)
        w1 == IF l.err # NoErr
              THEN Redirect(c.w, r, EditPrefix \o title, StatusFound)
              ELSE c.w
    IN  {[files |-> c.files,
          w     |-> w2,
          calls |-> c.calls \o <<Call("viewHandler", title, NilPage, "", NoErr),
                                  Call("loadPage", title, l.p, "", l.err),
                                  Call("renderTemplate", <<>>, l.p, "view", NoErr)>>,
          out   |-> Append(c.out, ViewColon \o r.path)] :
            w2 \in renderTemplate(w1, "view", l.p)}

\* editHandler that renders what loadPage returned, found or not
editHandlerNoNewPage(c, r, title) ==
    LET l == loadPage(c.files, title)
        p == l.p
    IN  {[files |-> c.files,
          w     |-> w2,
          calls |-> c.calls \o <<Call("editHandler", title, NilPage, "", NoErr),
                                  Call("loadPage", title, l.p, "", l.err),
                                  Call("renderTemplate", <<>>, p, "edit", NoErr)>>,
          out   |-> c.out] :
            w2 \in renderTemplate(c.w, "edit", p)}

\* editHandler that creates the file of a page it did not find
editHandlerCreates(c, r, title) ==
    LET l == loadPage(c.files, title)
        p == IF l.err # NoErr THEN Page(title, <<>>) ELSE l.p
    IN  {[files |-> IF l.err # NoErr
                    THEN OpenTrunc(c.files, title \o TxtExt)
                    ELSE c.files,
          w     |-> w2,
          calls |-> c.calls \o <<Call("editHandler", title, NilPage, "", NoErr),
                                  Call("loadPage", title, l.p, "", l.err),
                                  Call("renderTemplate", <<>>, p, "edit", NoErr)>>,
          out   |-> c.out] :
            w2 \in renderTemplate(c.w, "edit", p)}

editHandler(c, r, title) ==
    LET l == loadPage(c.files, title)
        p == IF l.err # NoErr THEN Page(title, <<>>) ELSE l.p
    IN  {[files |-> c.files,
          w     |-> w2,
          calls |-> c.calls \o <<Call("editHandler", title, NilPage, "", NoErr),
                                  Call("loadPage", title, l.p, "", l.err),
                                  Call("renderTemplate", <<>>, p, "edit", NoErr)>>,
          out   |-> c.out] :
            w2 \in renderTemplate(c.w, "edit", p)}

\* saveHandler that does not look at the error of save
saveHandlerUnchecked(c, r, title) ==
    LET body == r.form
        p == Page(title, body)
    IN  {[files |-> s.files,
          w     |-> Redirect(c.w, r, ViewPrefix \o title, StatusFound),
          calls |-> c.calls \o <<Call("saveHandler", title, NilPage, "", NoErr),
                                  Call("save", title, p, "", s.err)>>,
          out   |-> Append(c.out, SaveColon \o r.path) \o s.out] :
            s \in save(c.files, p)}

saveHandler(c, r, title) ==
    LET body == r.form
        p == Page(title, body)
    IN  {[files |-> s.files,
          w     |-> IF s.err # NoErr
                    THEN Error(c.w, s.err, StatusInternalServerError)
                    ELSE Redirect(c.w, r, ViewPrefix \o title, StatusFound),
          calls |-> c.calls \o <<Call("saveHandler", title, NilPage, "", NoErr),
                                  Call("save", title, p, "", s.err)>>,
          out   |-> Append(c.out, SaveColon \o r.path) \o s.out] :
            s \in save(c.files, p)}

\* fn(w, r, title) for the function value fn, which is named by its name
Apply(fn, c, r, title) ==
    CASE fn = "viewHandler" -> viewHandler(c, r, title)
      [] fn = "editHandler" -> editHandler(c, r, title)
      [] fn = "saveHandler" -> saveHandler(c, r, title)

\* makeHandler that passes the captured action where the identifier belongs
makeHandlerActionGroup(fn, c, r) ==
    LET m == validPath(r.path)
    IN  IF m = <<>> THEN {[c EXCEPT !.w = NotFound(c.w)]}
        ELSE Apply(fn, c, r, m[2])

\* makeHandler(fn): the handler that validates the path and calls fn with
\* the identifier the pattern captured
makeHandler(fn, c, r) ==
    LET m == validPath(r.path)
    IN  IF m = <<>> THEN {[c EXCEPT !.w = NotFound(c.w)]}
        ELSE Apply(fn, c, r, m[3])

----------------------------------------------------------------------------
(* The server that serves one request at a time                            *)

Request(method, path, form) == [method |-> method, path |-> path, form |-> form]
NoRequest == Request("", <<>>, <<>>)

\* the request is answered: the store and the response are what the handler
\* left
Done(r, c) ==
    /\ files' = c.files
    /\ resp' = [req |-> r, w |-> c.w, calls |-> c.calls, out |-> c.out]
    /\ UNCHANGED conns

Init ==
    /\ files = <<>>
    /\ resp = [req |-> NoRequest, w |-> NewResponse, calls |-> <<>>, out |-> <<>>]
    /\ lastSaved = <<>>
    /\ conns = <<>>

\* main: http.HandleFunc("/view/", makeHandler(viewHandler)), and so on: a
\* pattern ending in a slash gets every path under it
View(r) ==
    /\ HasPrefix(r.path, ViewPrefix)
    /\ \E c \in makeHandler("viewHandler", NewContext(files), r) : Done(r, c)

Edit(r) ==
    /\ HasPrefix(r.path, EditPrefix)
    /\ \E c \in makeHandler("editHandler", NewContext(files), r) : Done(r, c)

Save(r) ==
    /\ HasPrefix(r.path, SavePrefix)
    /\ \E c \in makeHandler("saveHandler", NewContext(files), r) : Done(r, c)

\* a path under no pattern is answered by the server's own 404
Unrouted(r) ==
    /\ ~ \E p \in {ViewPrefix, EditPrefix, SavePrefix} : HasPrefix(r.path, p)
    /\ Done(r, [NewContext(files) EXCEPT !.w = NotFound(@)])

\* the server's answer to one request on store fs: the contexts the handler
\* registered for the path's prefix can end in, or the server's own 404
ServeHTTP(fs, r) ==
    IF HasPrefix(r.path, ViewPrefix)
    THEN makeHandler("viewHandler", NewContext(fs), r)
    ELSE IF HasPrefix(r.path, EditPrefix)
    THEN makeHandler("editHandler", NewContext(fs), r)
    ELSE IF HasPrefix(r.path, SavePrefix)
    THEN makeHandler("saveHandler", NewContext(fs), r)
    ELSE {[NewContext(fs) EXCEPT !.w = NotFound(@)]}

\* Pages are viewed and edited with GET; the edit form is posted.
GetView == \E t \in Tails : View(Request("GET", ViewPrefix \o t, <<>>)) /\ UNCHANGED lastSaved
GetEdit == \E t \in Tails : Edit(Request("GET", EditPrefix \o t, <<>>)) /\ UNCHANGED lastSaved
PostSave ==
    \E t \in Tails, form \in Bodies :
        Save(Request("POST", SavePrefix \o t, form)) /\ UNCHANGED lastSaved
GetOther ==
    \E t \in Tails : Unrouted(Request("GET", OtherPrefix \o t, <<>>)) /\ UNCHANGED lastSaved

Next == GetView \/ GetEdit \/ PostSave \/ GetOther

Spec == Init /\ [][Next]_vars

----------------------------------------------------------------------------
(* The same server with the history of the saves kept                      *)

\* a save that succeeds is remembered, one that fails is forgotten
Remember(ls, calls) ==
    LET sv == {i \in DOMAIN calls : calls[i].fn = "save"}
    IN  IF sv = {} THEN ls
        ELSE LET k == calls[CHOOSE i \in sv : TRUE]
             IN  IF k.err = NoErr
                 THEN [t \in DOMAIN ls \cup {k.title} |->
                          IF t = k.title THEN k.p.Body ELSE ls[t]]
                 ELSE [t \in DOMAIN ls \ {k.title} |-> ls[t]]

Kept == lastSaved' = Remember(lastSaved, resp'.calls)

GetViewKept == \E t \in Ids : View(Request("GET", ViewPrefix \o t, <<>>)) /\ Kept
GetEditKept == \E t \in Ids : Edit(Request("GET", EditPrefix \o t, <<>>)) /\ Kept
PostSaveKept ==
    \E t \in Ids, form \in Bodies : Save(Request("POST", SavePrefix \o t, form)) /\ Kept
GetOtherKept == \E t \in Ids : Unrouted(Request("GET", OtherPrefix \o t, <<>>)) /\ Kept

NextSaved == GetViewKept \/ GetEditKept \/ PostSaveKept \/ GetOtherKept

SpecSaved == Init /\ [][NextSaved]_vars

----------------------------------------------------------------------------
(* wiki.go: the server whose handlers take the title from the path         *)

\* the identifier parts of the paths sent to wiki.go: none, an identifier,
\* one with a dot, one with a further segment
WikiTails == {<<>>, <<"a">>, <<"a", ".">>, <<"a", "/", "a">>}

\* renderTemplate of wiki.go: template.ParseFiles(tmpl + ".html") on every
\* call, http.Error and return when it fails; then t.Execute(w, p)
wikiRenderTemplate(w, tmpl, p) ==
    {Error(w, "parse", StatusInternalServerError),
     Write(w, Chunk("html", "", <<>>, tmpl, p)),
     Error(w, "execute", StatusInternalServerError),
     Error(Write(w, Chunk("partial", "", <<>>, tmpl, p)), "execute",
           StatusInternalServerError)}

wikiViewHandler(c, r) ==
    LET title == From(r.path, Len(ViewPrefix))
        l == loadPage(c.files, title)
        w1 == IF l.err # NoErr
              THEN Redirect(c.w, r, EditPrefix \o title, StatusFound)
              ELSE c.w
    IN  {[files |-> c.files,
          w     |-> w2,
          calls |-> c.calls \o <<Call("viewHandler", title, NilPage, "", NoErr),
                                  Call("loadPage", title, l.p, "", l.err),
                                  Call("renderTemplate", <<>>, l.p, "view", NoErr)>>,
          out   |-> Append(c.out, ViewColon \o r.path)] :
            w2 \in wikiRenderTemplate(w1, "view", l.p)}

\* the title is cut with len("/view/") here too
wikiEditHandler(c, r) ==
    LET title == From(r.path, Len(ViewPrefix))
        l == loadPage(c.files, title)
        p == IF l.err # NoErr THEN Page(title, <<>>) ELSE l.p
    IN  {[files |-> c.files,
          w     |-> w2,
          calls |-> c.calls \o <<Call("editHandler", title, NilPage, "", NoErr),
                                  Call("loadPage", title, l.p, "", l.err),
                                  Call("renderTemplate", <<>>, p, "edit", NoErr)>>,
          out   |-> Append(c.out, EditColon \o r.path)] :
            w2 \in wikiRenderTemplate(c.w, "edit", p)}

wikiSaveHandler(c, r) ==
    LET title == From(r.path, Len(SavePrefix))
        body == r.form
        p == Page(title, body)
    IN  {[files |-> s.files,
          w     |-> IF s.err # NoErr
                    THEN Error(c.w, s.err, StatusInternalServerError)
                    ELSE Redirect(c.w, r, ViewPrefix \o title, StatusFound),
          calls |-> c.calls \o <<Call("saveHandler", title, NilPage, "", NoErr),
                                  Call("save", title, p, "", s.err)>>,
          out   |-> Append(c.out, SaveColon \o r.path) \o s.out] :
            s \in save(c.files, p)}

\* main of wiki.go: the handlers are registered as they are
WikiView(r) ==
    /\ HasPrefix(r.path, ViewPrefix)
    /\ \E c \in wikiViewHandler(NewContext(files), r) : Done(r, c)

WikiEdit(r) ==
    /\ HasPrefix(r.path, EditPrefix)
    /\ \E c \in wikiEditHandler(NewContext(files), r) : Done(r, c)

WikiSave(r) ==
    /\ HasPrefix(r.path, SavePrefix)
    /\ \E c \in wikiSaveHandler(NewContext(files), r) : Done(r, c)

WikiGetView ==
    \E t \in WikiTails : WikiView(Request("GET", ViewPrefix \o t, <<>>)) /\ UNCHANGED lastSaved
WikiGetEdit ==
    \E t \in WikiTails : WikiEdit(Request("GET", EditPrefix \o t, <<>>)) /\ UNCHANGED lastSaved
WikiPostSave ==
    \E t \in WikiTails, form \in Bodies :
        WikiSave(Request("POST", SavePrefix \o t, form)) /\ UNCHANGED lastSaved
WikiGetOther ==
    \E t \in WikiTails :
        Unrouted(Request("GET", OtherPrefix \o t, <<>>)) /\ UNCHANGED lastSaved

NextWiki == WikiGetView \/ WikiGetEdit \/ WikiPostSave \/ WikiGetOther

SpecWiki == Init /\ [][NextWiki]_vars

----------------------------------------------------------------------------
(* The final server with requests served concurrently: net/http runs each  *)
(* request in a goroutine of its own, so the system calls of two requests  *)
(* interleave.  A connection carries one request.                          *)

Conns == {"c1", "c2"}

\* old is history: what the file held when this connection's save opened
\* it, <<>> when there was no file, else the one content in a sequence
Idle == [pc |-> "idle", req |-> NoRequest, title |-> <<>>, err |-> NoErr,
         w |-> NewResponse, p |-> NilPage, old |-> <<>>]

\* the stores one earlier save can have left
ConcStores ==
    {<<>>} \cup {[n \in {id \o TxtExt} |-> b] : id \in Ids \ {<<>>}, b \in Bodies}

InitConc ==
    /\ files \in ConcStores
    /\ resp = [req |-> NoRequest, w |-> NewResponse, calls |-> <<>>, out |-> <<>>]
    /\ lastSaved = <<>>
    /\ conns = [c \in Conns |-> Idle]

\* makeHandler on a save request: 404, or saveHandler up to the open of
\* WriteFile
ConcAcceptSave(c, r) ==
    /\ conns[c].pc = "idle"
    /\ HasPrefix(r.path, SavePrefix)
    /\ LET m == validPath(r.path)
       IN  conns' = [conns EXCEPT ![c] =
                IF m = <<>>
                THEN [Idle EXCEPT !.pc = "done", !.req = r, !.w = NotFound(NewResponse)]
                ELSE [Idle EXCEPT !.pc = "open", !.req = r, !.title = m[3]]]
    /\ UNCHANGED <<files, resp, lastSaved>>

\* os.OpenFile(filename, O_WRONLY|O_CREATE|O_TRUNC, 0600)
ConcOpen(c) ==
    /\ conns[c].pc = "open"
    /\ \/ /\ files' = OpenTrunc(files, conns[c].title \o TxtExt)
          /\ conns' = [conns EXCEPT ![c].pc = "write",
                           ![c].old = IF (conns[c].title \o TxtExt) \in DOMAIN files
                                      THEN <<files[conns[c].title \o TxtExt]>>
                                      ELSE <<>>]
       \/ /\ conns' = [conns EXCEPT ![c].pc = "answer", ![c].err = "open"]
          /\ UNCHANGED files
    /\ UNCHANGED <<resp, lastSaved>>

\* f.Write(data): the bytes land at the descriptor's offset, which is 0
ConcWrite(c) ==
    /\ conns[c].pc = "write"
    /\ \/ /\ files' = WriteAt(files, conns[c].title \o TxtExt, 0, conns[c].req.form)
          /\ conns' = [conns EXCEPT ![c].pc = "close"]
       \/ \E n \in {k \in 0..Len(conns[c].req.form) : k < Len(conns[c].req.form)} :
            /\ files' = WriteAt(files, conns[c].title \o TxtExt, 0,
                                SubSeq(conns[c].req.form, 1, n))
            /\ conns' = [conns EXCEPT ![c].pc = "close", ![c].err = "write"]
    /\ UNCHANGED <<resp, lastSaved>>

\* f.Close(): its error is returned when the write made none
ConcClose(c) ==
    /\ conns[c].pc = "close"
    /\ \/ conns' = [conns EXCEPT ![c].pc = "answer"]
       \/ conns' = [conns EXCEPT ![c].pc = "answer",
                                 ![c].err = IF @ = NoErr THEN "close" ELSE @]
    /\ UNCHANGED <<files, resp, lastSaved>>

\* saveHandler after p.save(): the error page or the redirect
ConcAnswer(c) ==
    /\ conns[c].pc = "answer"
    /\ conns' = [conns EXCEPT ![c].pc = "done",
                    ![c].w = IF conns[c].err # NoErr
                             THEN Error(NewResponse, conns[c].err, StatusInternalServerError)
                             ELSE Redirect(NewResponse, conns[c].req,
                                           ViewPrefix \o conns[c].title, StatusFound)]
    /\ UNCHANGED <<files, resp, lastSaved>>

\* a view request: ReadFile reads the file as it is at that moment
ConcView(c, r) ==
    /\ conns[c].pc = "idle"
    /\ HasPrefix(r.path, ViewPrefix)
    /\ \E d \in makeHandler("viewHandler", NewContext(files), r) :
          conns' = [conns EXCEPT ![c] =
                       [Idle EXCEPT !.pc = "done", !.req = r, !.w = d.w,
                                    !.title = IF d.calls = <<>> THEN <<>> ELSE d.calls[2].title,
                                    !.err = IF d.calls = <<>> THEN NoErr ELSE d.calls[2].err,
                                    !.p = IF d.calls = <<>> THEN NilPage ELSE d.calls[2].p]]
    /\ UNCHANGED <<files, resp, lastSaved>>

AcceptSave ==
    \E c \in Conns, t \in Ids, form \in ConcBodies :
        ConcAcceptSave(c, Request("POST", SavePrefix \o t, form))
Open == \E c \in Conns : ConcOpen(c)
WriteData == \E c \in Conns : ConcWrite(c)
Close == \E c \in Conns : ConcClose(c)
Answer == \E c \in Conns : ConcAnswer(c)
ServeView == \E c \in Conns, t \in Ids : ConcView(c, Request("GET", ViewPrefix \o t, <<>>))

NextConc == AcceptSave \/ Open \/ WriteData \/ Close \/ Answer \/ ServeView

SpecConc == InitConc /\ [][NextConc]_vars

----------------------------------------------------------------------------
(* The properties                                                          *)

\* an identifier as the specification defines it: one or more ASCII letters
\* and digits
IsIdentifier(t) ==
    /\ Len(t) >= 1
    /\ \A i \in 1..Len(t) : t[i] \in Lower \cup Upper \cup Digit

\* the path is /<action>/<identifier> with action one of view, edit, save
Matches(path) ==
    \E p \in {ViewPrefix, EditPrefix, SavePrefix} :
        HasPrefix(path, p) /\ IsIdentifier(From(path, Len(p)))

\* the identifier of a request for the action whose prefix is p
IdOf(path, p) == From(path, Len(p))
IsFor(path, p) == HasPrefix(path, p) /\ IsIdentifier(IdOf(path, p))

CallsOf(calls, fn) == SelectSeq(calls, LAMBDA k : k.fn = fn)
Exists(fs, title) == (title \o TxtExt) \in DOMAIN fs

\* C1: a request whose path is not /(edit|save|view)/<identifier> is answered
\* 404 by the validating handler, which calls no handler, no loadPage and no
\* save, and leaves the store as it was.
C1_RejectedBeforeHandler ==
    [][(/\ \E p \in {ViewPrefix, EditPrefix, SavePrefix} : HasPrefix(resp'.req.path, p)
        /\ ~ Matches(resp'.req.path))
       => (/\ resp'.w.status = 404
           /\ resp'.w.body = <<Chunk("error", "404 page not found", <<>>, "", NilPage)>>
           /\ resp'.calls = <<>>
           /\ files' = files)]_vars

\* pages are stored, and a request for /save/a/.. has just been rejected
C1_Witness ==
    /\ DOMAIN files # {}
    /\ resp.req.path = SavePrefix \o <<"a", "/", ".", ".">>
    /\ resp.w.status = 404

\* C4: when loadPage fails in viewHandler the request ends with the redirect:
\* renderTemplate is not called, and it is never called with a nil page.
C4_NoRenderAfterRedirect ==
    /\ \A i \in DOMAIN resp.calls :
          resp.calls[i].fn = "renderTemplate" => ~ resp.calls[i].p.nil
    /\ (\E i \in DOMAIN resp.calls :
            resp.calls[i].fn = "loadPage" /\ resp.calls[i].err # NoErr
                /\ resp.calls[1].fn = "viewHandler")
          => CallsOf(resp.calls, "renderTemplate") = <<>>

\* C5: a view of a valid title that has no file is answered 302 with
\* Location /edit/<title>, and no file is created.
C5_ViewMissingRedirects ==
    [][(/\ IsFor(resp'.req.path, ViewPrefix)
        /\ ~ Exists(files, IdOf(resp'.req.path, ViewPrefix)))
       => (/\ resp'.w.status = 302
           /\ resp'.w.location = EditPrefix \o IdOf(resp'.req.path, ViewPrefix)
           /\ files' = files)]_vars

\* /view/aa was asked for while only a.txt exists, and answered 302
C5_Witness ==
    /\ resp.req.path = ViewPrefix \o <<"a", "a">>
    /\ DOMAIN files = {<<"a">> \o TxtExt}
    /\ resp.w.status = 302
    /\ resp.w.location = EditPrefix \o <<"a", "a">>

\* C8: a save request for a valid title calls save once; when it succeeds
\* the answer is 302 to /view/<title>, when it fails the answer is 500 with
\* the error's message and no Location.
C8_SaveTwoOutcomes ==
    IsFor(resp.req.path, SavePrefix) =>
        LET t == IdOf(resp.req.path, SavePrefix)
            sv == CallsOf(resp.calls, "save")
        IN  /\ Len(sv) = 1
            /\ sv[1].title = t
            /\ sv[1].p = Page(t, resp.req.form)
            /\ sv[1].err = NoErr =>
                  /\ resp.w.status = 302
                  /\ resp.w.location = ViewPrefix \o t
                  /\ resp.w.body = <<>>
            /\ sv[1].err # NoErr =>
                  /\ resp.w.status = 500
                  /\ resp.w.location = <<>>
                  /\ resp.w.header = <<>>
                  /\ resp.w.body = <<Chunk("error", sv[1].err, <<>>, "", NilPage)>>

\* a save of /save/a failed in its write and was answered 500
C8_Witness ==
    /\ resp.req.path = SavePrefix \o <<"a">>
    /\ resp.w.status = 500
    /\ CallsOf(resp.calls, "save") # <<>>
    /\ CallsOf(resp.calls, "save")[1].err = "write"

\* C9: an edit of a valid title that has no file renders the edit template
\* with a page of that title and an empty body; nothing is redirected, the
\* only error possible is the template's, and no file is created.
C9_EditMissingRendersEmpty ==
    [][(/\ IsFor(resp'.req.path, EditPrefix)
        /\ ~ Exists(files, IdOf(resp'.req.path, EditPrefix)))
       => LET t == IdOf(resp'.req.path, EditPrefix) IN
          /\ CallsOf(resp'.calls, "renderTemplate")
                = <<Call("renderTemplate", <<>>, Page(t, <<>>), "edit", NoErr)>>
          /\ resp'.w \in renderTemplate(NewResponse, "edit", Page(t, <<>>))
          /\ resp'.w.status # 302
          /\ resp'.w.location = <<>>
          /\ CallsOf(resp'.calls, "save") = <<>>
          /\ files' = files]_vars

\* /edit/aa was asked for while only a.txt exists, and the form was written
C9_Witness ==
    /\ resp.req.path = EditPrefix \o <<"a", "a">>
    /\ DOMAIN files = {<<"a">> \o TxtExt}
    /\ resp.w.status = 200
    /\ resp.w.body = <<Chunk("html", "", <<>>, "edit", Page(<<"a", "a">>, <<>>))>>

\* C3: once a save of body b to a valid title t has succeeded, and until
\* the next save to t, loadPage(t) succeeds and returns the page of title t
\* and body b, whatever t held before.
C3_SaveThenLoad ==
    \A t \in DOMAIN lastSaved :
        loadPage(files, t) = [p |-> Page(t, lastSaved[t]), err |-> NoErr]

\* the last save of aa was of the empty body and the last save of a of the
\* body x, both succeeded, and an edit request has been served since
C3_Witness ==
    /\ DOMAIN lastSaved = {<<"a">>, <<"a", "a">>}
    /\ lastSaved[<<"a", "a">>] = <<>>
    /\ lastSaved[<<"a">>] = <<"x">>
    /\ CallsOf(resp.calls, "save") = <<>>
    /\ IsFor(resp.req.path, EditPrefix)

\* C10: a view of t that follows a successful save of body b to t, with no
\* save to t in between, renders the view template with the page of title t
\* and body b and redirects nowhere.
C10_ViewAfterSave ==
    (/\ IsFor(resp.req.path, ViewPrefix)
     /\ IdOf(resp.req.path, ViewPrefix) \in DOMAIN lastSaved)
    => LET t == IdOf(resp.req.path, ViewPrefix)
           pg == Page(t, lastSaved[t])
       IN  /\ CallsOf(resp.calls, "renderTemplate")
                 = <<Call("renderTemplate", <<>>, pg, "view", NoErr)>>
           /\ resp.w \in renderTemplate(NewResponse, "view", pg)
           /\ resp.w.status # 302
           /\ resp.w.location = <<>>
           /\ resp.w.header = <<>>

\* a was saved with body x, and /view/a then wrote the page
C10_Witness ==
    /\ resp.req.path = ViewPrefix \o <<"a">>
    /\ <<"a">> \in DOMAIN lastSaved
    /\ lastSaved[<<"a">>] = <<"x">>
    /\ resp.w.status = 200
    /\ resp.w.body = <<Chunk("html", "", <<>>, "view", Page(<<"a">>, <<"x">>))>>

\* C2: in wiki.go every title that reaches loadPage or Page.save is a
\* non-empty string of ASCII letters and digits.
C2_WikiTitlesAreIdentifiers ==
    \A i \in DOMAIN resp.calls :
        resp.calls[i].fn \in {"loadPage", "save"} => IsIdentifier(resp.calls[i].title)

\* C6: when two saves to one title run concurrently and both succeed, the
\* file ends holding the body of one of them.
C6_ConcurrentSavesKeepOneBody ==
    (/\ \A c \in Conns : conns[c].pc = "done" /\ conns[c].err = NoErr
     /\ \A c \in Conns : IsFor(conns[c].req.path, SavePrefix)
     /\ conns["c1"].title = conns["c2"].title)
    => files[conns["c1"].title \o TxtExt] \in {conns["c1"].req.form, conns["c2"].req.form}

\* C7: a save that returns an error leaves the store as it was.
C7_FailedSaveKeepsFile ==
    [][(\E i \in DOMAIN resp'.calls :
            resp'.calls[i].fn = "save" /\ resp'.calls[i].err # NoErr)
       => files' = files]_vars

\* C11: when the execution of a template fails, the client gets status 500
\* and the failure's message and nothing else: no rendered output and no
\* other status went out before.
C11_RenderFailureIsOnly500 ==
    (\E i \in DOMAIN resp.w.body :
        resp.w.body[i].kind = "error" /\ resp.w.body[i].msg = "execute")
    => /\ resp.w.status = StatusInternalServerError
       /\ resp.w.body = <<Chunk("error", "execute", <<>>, "", NilPage)>>

\* C12 as stated: every save request with an empty body for a page that
\* exists leaves that page's file empty.
C12_EmptySaveAlwaysEmpties ==
    [][(/\ IsFor(resp'.req.path, SavePrefix)
        /\ resp'.req.form = <<>>
        /\ Exists(files, IdOf(resp'.req.path, SavePrefix)))
       => files'[IdOf(resp'.req.path, SavePrefix) \o TxtExt] = <<>>]_vars

\* C12: a save request with an empty body for a page that exists makes that
\* page's file empty and touches nothing else, unless the file could not be
\* opened: then the answer is 500 and the store is as before. Once the file
\* is empty, the same empty save leaves the whole store as it is.
C12_EmptySaveIdempotent ==
    [][(/\ IsFor(resp'.req.path, SavePrefix)
        /\ resp'.req.form = <<>>
        /\ Exists(files, IdOf(resp'.req.path, SavePrefix)))
       => LET key == IdOf(resp'.req.path, SavePrefix) \o TxtExt
              sv  == CallsOf(resp'.calls, "save")
          IN  /\ Len(sv) = 1
              /\ sv[1].err # "open" => files' = [files EXCEPT ![key] = <<>>]
              /\ sv[1].err = "open" => /\ files' = files
                                       /\ resp'.w.status = 500
              /\ files[key] = <<>> => files' = files]_vars

\* an empty save of /save/a went through; a.txt is empty and aa.txt kept "x"
C12_Witness ==
    /\ resp.req.path = SavePrefix \o <<"a">>
    /\ resp.req.form = <<>>
    /\ resp.w.status = 302
    /\ DOMAIN files = {<<"a">> \o TxtExt, <<"a", "a">> \o TxtExt}
    /\ files[<<"a">> \o TxtExt] = <<>>
    /\ files[<<"a", "a">> \o TxtExt] = <<"x">>

\* C13: in any step, a file that is new or whose content changed is the
\* file of the title of the save request served in that step; views, edits,
\* rejected requests and saves of other titles leave it alone, and no step
\* removes a file.
C13_OnlySaveOfTitleChangesFile ==
    [][/\ DOMAIN files \subseteq DOMAIN files'
       /\ \A name \in DOMAIN files' :
            (name \notin DOMAIN files \/ files'[name] # files[name])
            => /\ IsFor(resp'.req.path, SavePrefix)
               /\ name = IdOf(resp'.req.path, SavePrefix) \o TxtExt]_vars

\* /save/aa wrote "x" next to an a.txt that stayed empty
C13_Witness ==
    /\ resp.req.path = SavePrefix \o <<"a", "a">>
    /\ resp.req.form = <<"x">>
    /\ resp.w.status = 302
    /\ DOMAIN files = {<<"a">> \o TxtExt, <<"a", "a">> \o TxtExt}
    /\ files[<<"a">> \o TxtExt] = <<>>
    /\ files[<<"a", "a">> \o TxtExt] = <<"x">>

\* C14: a load of t that succeeded, with one save of t by the other
\* connection that has opened the file and has met no error, returned the
\* content the file had before that save or the whole body being saved.
C14_LoadSeesWholeBody ==
    \A c \in Conns, d \in Conns :
        (/\ c # d
         /\ conns[c].pc = "done"
         /\ IsFor(conns[c].req.path, ViewPrefix)
         /\ conns[c].err = NoErr
         /\ IsFor(conns[d].req.path, SavePrefix)
         /\ conns[d].title = conns[c].title
         /\ conns[d].pc \in {"write", "close", "answer", "done"}
         /\ conns[d].err = NoErr)
        => conns[c].p.Body \in
              {conns[d].req.form} \cup {conns[d].old[i] : i \in DOMAIN conns[d].old}

HandlerCalls(calls) ==
    SelectSeq(calls, LAMBDA k : k.fn \in {"viewHandler", "editHandler", "saveHandler"})

\* the calls a request for the action of prefix p and handler fn must have
\* made: fn once with the identifier, and the one store operation op with it
OneHandlerOneStoreOp(p, fn, op, other) ==
    IsFor(resp.req.path, p) =>
        LET id == IdOf(resp.req.path, p) IN
        /\ Len(HandlerCalls(resp.calls)) = 1
        /\ HandlerCalls(resp.calls)[1].fn = fn
        /\ HandlerCalls(resp.calls)[1].title = id
        /\ Len(CallsOf(resp.calls, op)) = 1
        /\ CallsOf(resp.calls, op)[1].title = id
        /\ CallsOf(resp.calls, other) = <<>>

\* C15: a request for the valid path /<action>/<id> called the handler of
\* <action> and no other, once, with <id> as title; a view and an edit made
\* one loadPage(<id>) and no save, a save made one Page.save of a page
\* titled <id> with the posted body and no loadPage.
C15_OneHandlerOneStoreOp ==
    /\ OneHandlerOneStoreOp(ViewPrefix, "viewHandler", "loadPage", "save")
    /\ OneHandlerOneStoreOp(EditPrefix, "editHandler", "loadPage", "save")
    /\ OneHandlerOneStoreOp(SavePrefix, "saveHandler", "save", "loadPage")
    /\ IsFor(resp.req.path, SavePrefix) =>
          CallsOf(resp.calls, "save")[1].p
              = Page(IdOf(resp.req.path, SavePrefix), resp.req.form)

\* /edit/aa was served by editHandler with one loadPage("aa") that found it
C15_Witness ==
    /\ resp.req.path = EditPrefix \o <<"a", "a">>
    /\ HandlerCalls(resp.calls) = <<Call("editHandler", <<"a", "a">>, NilPage, "", NoErr)>>
    /\ CallsOf(resp.calls, "loadPage")
          = <<Call("loadPage", <<"a", "a">>, Page(<<"a", "a">>, <<"x">>), "", NoErr)>>

\* C16: the Location of every redirect is a path validPath accepts, with
\* the identifier of the request that was redirected; and the GET of that
\* Location on the store the request left is never answered by a redirect:
\* after a save it renders the view of the saved page, after a view of a
\* missing page it renders the edit form of an empty page.
C16_RedirectsEndAfterOne ==
    resp.w.status = StatusFound =>
        LET id    == validPath(resp.req.path)[3]
            saved == HasPrefix(resp.req.path, SavePrefix)
            loc   == resp.w.location
        IN  /\ validPath(loc) # <<>>
            /\ validPath(loc)[3] = id
            /\ \A d \in ServeHTTP(files, Request("GET", loc, <<>>)) :
                  /\ d.w.status # StatusFound
                  /\ d.w.location = <<>>
                  /\ CallsOf(d.calls, "renderTemplate")
                        = <<Call("renderTemplate", <<>>,
                                 IF saved THEN Page(id, files[id \o TxtExt])
                                         ELSE Page(id, <<>>),
                                 IF saved THEN "view" ELSE "edit", NoErr)>>

\* /save/aa with body "x" was answered by the redirect to /view/aa
C16_Witness ==
    /\ resp.req.path = SavePrefix \o <<"a", "a">>
    /\ resp.req.form = <<"x">>
    /\ resp.w.status = StatusFound
    /\ resp.w.location = ViewPrefix \o <<"a", "a">>
    /\ files[<<"a", "a">> \o TxtExt] = <<"x">>

Contains(line, key) ==
    \E i \in 1..(Len(line) - Len(key) + 1) : SubSeq(line, i, i + Len(key) - 1) = key

\* C17: for every loadPage and every Page.save a request made, a printed
\* line states the key of the file the call resolved, <title>.txt.
C17_StoreCallsAreTraced ==
    \A i \in DOMAIN resp.calls :
        resp.calls[i].fn \in {"loadPage", "save"}
        => \E j \in DOMAIN resp.out :
              Contains(resp.out[j], resp.calls[i].title \o TxtExt)

====
